---- MODULE Spec2Model ----
(***************************************************************************)
(* RenderEngineThreaded: a facade that owns one worker thread (threadMain) *)
(* and a RenderEngine created and destroyed on that thread.  Callers push  *)
(* closures onto mFunctionCalls under mThreadMutex; blocking calls wait on *)
(* a std::future, fire-and-forget calls return after notify_one.           *)
(***************************************************************************)
EXTENDS Integers, Sequences, FiniteSets, TLC

\* ---------------------------------------------------------------- bounds
NumCallers == 2          \* caller (producer) threads
MaxCalls == 2            \* public operations begun over the whole run

Callers == 1..NumCallers
TaskIds == 1..MaxCalls

\* ------------------------------------------------------------ thread ids
Unlocked == 0                      \* a std::mutex nobody holds
WorkerThread == NumCallers + 1     \* the thread running threadMain
DtorThread == NumCallers + 2       \* the thread running ~RenderEngineThreaded

\* What a RenderEngine operation can return (status_t / bool / int).
Results == {"NO_ERROR", "BAD_VALUE"}

\* The calling conventions of the public operations.
\*   async       primeCache, mapExternalTextureBuffer, ... (no future)
\*   sync        dump, genTextures, drawLayers, ...        (promise/future)
\*   wait        waitUntilInitialized
\*   read        getMaxTextureSize, supportsBackgroundBlur, ...
\*   isProtected isProtected (direct read under mThreadMutex)
Ops == {"async", "sync", "wait", "read", "isProtected"}

NoTask == [id |-> 0, sync |-> FALSE]

VARIABLES
    \* members of RenderEngineThreaded
    mRenderEngine,      \* "null" or "engine" (std::unique_ptr<RenderEngine>)
    mRunning,           \* bool, guarded by mThreadMutex
    mIsInitialized,     \* bool, guarded by mInitializedMutex
    mFunctionCalls,     \* std::queue of closures, guarded by mThreadMutex
    mThreadMutex,       \* holder of mThreadMutex, or Unlocked
    mInitializedMutex,  \* holder of mInitializedMutex, or Unlocked
    \* the worker thread (threadMain)
    wpc,                \* position in threadMain
    task,               \* local `task` of the loop body
    returnValue,        \* local of the closure being run
    \* caller threads
    cpc,                \* position of each caller inside its public call
    cop,                \* which operation the caller is in
    ctask,              \* id of the closure the caller pushed in this call
    \* the thread destroying the object
    dpc,
    \* per-call result channels (std::promise on the caller's stack)
    promise,            \* id -> "unset" or the value given to set_value
    retval,             \* caller -> "none" or the value its future.get() yielded
    \* observation of the run
    pushed,             \* closures in the order they were pushed
    executed,           \* ids in the order the worker began to run them
    inflight,           \* ids currently running against the RenderEngine
    opResult,           \* id -> what the RenderEngine returned to a blocking
                        \* call's closure ("none": not run, or call over)
    setCount,           \* id -> number of set_value calls on its promise
    constructed,        \* factory() has returned
    destroyed,          \* mRenderEngine.reset() has run
    nullDeref,          \* a caller dereferenced mRenderEngine while null
    cleanShutdown,      \* no public call was in progress when ~ began
    calls               \* public operations begun so far

vars == <<mRenderEngine, mRunning, mIsInitialized, mFunctionCalls,
          mThreadMutex, mInitializedMutex, wpc, task, returnValue,
          cpc, cop, ctask, dpc, promise, retval, pushed, executed,
          inflight, opResult, setCount, constructed, destroyed,
          nullDeref, cleanShutdown, calls>>

memberVars == <<mRenderEngine, mRunning, mIsInitialized, mFunctionCalls,
                mThreadMutex, mInitializedMutex>>
workerVars == <<wpc, task, returnValue>>
callerVars == <<cpc, cop, ctask>>
channelVars == <<promise, retval>>
ghostVars == <<pushed, executed, inflight, opResult, setCount, constructed,
               destroyed, nullDeref, cleanShutdown, calls>>

\* ------------------------------------------------- std::queue operations
\* Mutant: back() where front() is meant.
FrontBack(q) == q[Len(q)]
Front(q) == q[1]
\* Mutant: the pop() is forgotten.
PopNothing(q) == q
Pop(q) == Tail(q)
\* Mutant: the closure is put at the head of the queue.
PushFront(q, t) == <<t>> \o q
Push(q, t) == Append(q, t)
Empty(q) == Len(q) = 0

\* The predicates of the two condition waits.
ConditionPredicate == (~mRunning) \/ (~Empty(mFunctionCalls))
\* Mutant: the wait on mInitializedCondition has no predicate to hold it.
InitializedPredicateTrue == TRUE
InitializedPredicate == mIsInitialized

\* Mutant: the notification is lost.
NotifyNobody(pc) == pc

\* mCondition.notify_one(): the worker is the only thread that ever waits on
\* mCondition; a notification moves it out of the wait set, after which it
\* has to take mThreadMutex again.
NotifyOne(pc) == IF pc = "waiting" THEN "relock" ELSE pc

\* Mutant: notify_all wakes no waiter.
NotifyAllNobody(pcs) == pcs

\* mInitializedCondition.notify_all(): every caller blocked in
\* waitUntilInitialized leaves the wait set and goes for mInitializedMutex.
NotifyAll(pcs) == [c \in Callers |-> IF pcs[c] = "iwait" THEN "ilock" ELSE pcs[c]]

\* ------------------------------------------------------------------ Init
\* The state once the constructor has returned: the thread is launched and
\* has not run factory() yet, the constructor's lock_guard is released.
Init ==
    /\ mRenderEngine = "null"
    /\ mRunning = TRUE
    /\ mIsInitialized = FALSE
    /\ mFunctionCalls = <<>>
    /\ mThreadMutex = Unlocked
    /\ mInitializedMutex = Unlocked
    /\ wpc = "factory"
    /\ task = NoTask
    /\ returnValue = "none"
    /\ cpc = [c \in Callers |-> "idle"]
    /\ cop = [c \in Callers |-> "none"]
    /\ ctask = [c \in Callers |-> 0]
    /\ dpc = "idle"
    /\ promise = [i \in TaskIds |-> "unset"]
    /\ retval = [c \in Callers |-> "none"]
    /\ pushed = <<>>
    /\ executed = <<>>
    /\ inflight = {}
    /\ opResult = [i \in TaskIds |-> "none"]
    /\ setCount = [i \in TaskIds |-> 0]
    /\ constructed = FALSE
    /\ destroyed = FALSE
    /\ nullDeref = FALSE
    /\ cleanShutdown = FALSE
    /\ calls = 0


\* ----------------------------------------------------------- the worker
\* Mutant: the thread goes on without the RenderEngine having been made.
WorkerFactorySkipped ==
    /\ wpc = "factory"
    /\ wpc' = "lock"
    /\ UNCHANGED <<memberVars, task, returnValue, callerVars, dpc,
                   channelVars, ghostVars>>

\* threadMain, line 72: mRenderEngine = factory().  No lock is held.
WorkerFactory ==
    /\ wpc = "factory"
    /\ mRenderEngine' = "engine"
    /\ constructed' = TRUE
    /\ wpc' = "lock"
    /\ UNCHANGED <<mRunning, mIsInitialized, mFunctionCalls, mThreadMutex,
                   mInitializedMutex, task, returnValue, callerVars, dpc,
                   channelVars, pushed, executed, inflight, opResult,
                   setCount, destroyed, nullDeref, cleanShutdown, calls>>

\* line 74: std::unique_lock<std::mutex> lock(mThreadMutex).  The lock is
\* owned by the worker from here to the end of threadMain, except inside
\* mCondition.wait.
WorkerLock ==
    /\ wpc = "lock"
    /\ mThreadMutex = Unlocked
    /\ mThreadMutex' = WorkerThread
    /\ wpc' = "initLock"
    /\ UNCHANGED <<mRenderEngine, mRunning, mIsInitialized, mFunctionCalls,
                   mInitializedMutex, task, returnValue, callerVars, dpc,
                   channelVars, ghostVars>>

\* line 78: std::unique_lock<std::mutex> lock(mInitializedMutex).
WorkerInitLock ==
    /\ wpc = "initLock"
    /\ mInitializedMutex = Unlocked
    /\ mInitializedMutex' = WorkerThread
    /\ wpc' = "setInit"
    /\ UNCHANGED <<mRenderEngine, mRunning, mIsInitialized, mFunctionCalls,
                   mThreadMutex, task, returnValue, callerVars, dpc,
                   channelVars, ghostVars>>

\* lines 79-80: mIsInitialized = true; the inner lock goes out of scope.
WorkerSetInitialized ==
    /\ wpc = "setInit"
    /\ mIsInitialized' = TRUE
    /\ mInitializedMutex' = Unlocked
    /\ wpc' = "notifyInit"
    /\ UNCHANGED <<mRenderEngine, mRunning, mFunctionCalls, mThreadMutex,
                   task, returnValue, callerVars, dpc, channelVars,
                   ghostVars>>

\* line 81: mInitializedCondition.notify_all().
WorkerNotifyInitialized ==
    /\ wpc = "notifyInit"
    /\ cpc' = NotifyAll(cpc)
    /\ wpc' = "loop"
    /\ UNCHANGED <<memberVars, task, returnValue, cop, ctask, dpc,
                   channelVars, ghostVars>>

\* Mutant: the worker goes on emptying the queue after mRunning is cleared.
WorkerPopIgnoringStop ==
    /\ wpc = "loop"
    /\ ~Empty(mFunctionCalls)
    /\ task' = Front(mFunctionCalls)
    /\ mFunctionCalls' = Pop(mFunctionCalls)
    /\ executed' = Append(executed, Front(mFunctionCalls).id)
    /\ inflight' = inflight \cup {Front(mFunctionCalls).id}
    /\ wpc' = "exec"
    /\ UNCHANGED <<mRenderEngine, mRunning, mIsInitialized, mThreadMutex,
                   mInitializedMutex, returnValue, callerVars, dpc,
                   channelVars, pushed, opResult, setCount, constructed,
                   destroyed, nullDeref, cleanShutdown, calls>>

\* Mutant: the closure is started without waiting for it to finish (the
\* loop goes on while it runs).
WorkerPopDetached ==
    /\ wpc = "loop"
    /\ mRunning
    /\ ~Empty(mFunctionCalls)
    /\ task' = Front(mFunctionCalls)
    /\ mFunctionCalls' = Pop(mFunctionCalls)
    /\ executed' = Append(executed, Front(mFunctionCalls).id)
    /\ inflight' = inflight \cup {Front(mFunctionCalls).id}
    /\ wpc' = "wait"
    /\ UNCHANGED <<mRenderEngine, mRunning, mIsInitialized, mThreadMutex,
                   mInitializedMutex, returnValue, callerVars, dpc,
                   channelVars, pushed, opResult, setCount, constructed,
                   destroyed, nullDeref, cleanShutdown, calls>>

\* lines 83-87, mRunning and a non-empty queue: front(), pop(), and the call
\* task(*mRenderEngine) begins.  mThreadMutex stays with the worker.
WorkerPop ==
    /\ wpc = "loop"
    /\ mRunning
    /\ ~Empty(mFunctionCalls)
    /\ task' = Front(mFunctionCalls)
    /\ mFunctionCalls' = Pop(mFunctionCalls)
    /\ executed' = Append(executed, Front(mFunctionCalls).id)
    /\ inflight' = inflight \cup {Front(mFunctionCalls).id}
    /\ wpc' = "exec"
    /\ UNCHANGED <<mRenderEngine, mRunning, mIsInitialized, mThreadMutex,
                   mInitializedMutex, returnValue, callerVars, dpc,
                   channelVars, pushed, opResult, setCount, constructed,
                   destroyed, nullDeref, cleanShutdown, calls>>

\* lines 83-84, mRunning and an empty queue: fall through to the wait.
WorkerNothingToDo ==
    /\ wpc = "loop"
    /\ mRunning
    /\ Empty(mFunctionCalls)
    /\ wpc' = "wait"
    /\ UNCHANGED <<memberVars, task, returnValue, callerVars, dpc,
                   channelVars, ghostVars>>

\* line 83, mRunning false: the loop ends.
WorkerLeaveLoop ==
    /\ wpc = "loop"
    /\ ~mRunning
    /\ wpc' = "reset"
    /\ UNCHANGED <<memberVars, task, returnValue, callerVars, dpc,
                   channelVars, ghostVars>>

\* The closure of a fire-and-forget call (lines 109-112, 173-176, ...): the
\* RenderEngine operation runs and the closure returns; whatever the
\* operation returned is dropped.
TaskRunAsync ==
    /\ wpc = "exec"
    /\ ~task.sync
    /\ inflight' = inflight \ {task.id}
    /\ task' = NoTask
    /\ wpc' = "wait"
    /\ UNCHANGED <<memberVars, returnValue, callerVars, dpc, channelVars,
                   pushed, executed, opResult, setCount, constructed,
                   destroyed, nullDeref, cleanShutdown, calls>>

\* Mutant: the closure sets the promise as soon as the operation has
\* returned, and again as its last statement.
TaskRunSyncSetsValue ==
    /\ wpc = "exec"
    /\ task.sync
    /\ \E v \in Results :
          /\ opResult' = [opResult EXCEPT ![task.id] = v]
          /\ returnValue' = v
          /\ promise' = [promise EXCEPT ![task.id] = v]
    /\ setCount' = [setCount EXCEPT ![task.id] = @ + 1]
    /\ wpc' = "setval"
    /\ UNCHANGED <<memberVars, task, callerVars, dpc, retval, pushed,
                   executed, inflight, constructed, destroyed, nullDeref,
                   cleanShutdown, calls>>

\* The closure of a blocking call, first half (lines 226, 241, 278, 308):
\* returnValue = instance.op(...).
TaskRunSync ==
    /\ wpc = "exec"
    /\ task.sync
    /\ \E v \in Results :
          /\ opResult' = [opResult EXCEPT ![task.id] = v]
          /\ returnValue' = v
    /\ wpc' = "setval"
    /\ UNCHANGED <<memberVars, task, callerVars, dpc, channelVars, pushed,
                   executed, inflight, setCount, constructed, destroyed,
                   nullDeref, cleanShutdown, calls>>

\* Mutant: a failed operation makes the worker give up its loop.
TaskSetValueStopOnError ==
    /\ wpc = "setval"
    /\ promise' = [promise EXCEPT ![task.id] = returnValue]
    /\ setCount' = [setCount EXCEPT ![task.id] = @ + 1]
    /\ inflight' = inflight \ {task.id}
    /\ task' = NoTask
    /\ returnValue' = "none"
    /\ wpc' = IF returnValue = "BAD_VALUE" THEN "reset" ELSE "wait"
    /\ UNCHANGED <<memberVars, callerVars, dpc, retval, pushed, executed,
                   opResult, constructed, destroyed, nullDeref,
                   cleanShutdown, calls>>

\* Mutant: the closure reports success whatever the operation returned.
TaskSetValueOk ==
    /\ wpc = "setval"
    /\ promise' = [promise EXCEPT ![task.id] = "NO_ERROR"]
    /\ setCount' = [setCount EXCEPT ![task.id] = @ + 1]
    /\ inflight' = inflight \ {task.id}
    /\ task' = NoTask
    /\ returnValue' = "none"
    /\ wpc' = "wait"
    /\ UNCHANGED <<memberVars, callerVars, dpc, retval, pushed, executed,
                   opResult, constructed, destroyed, nullDeref,
                   cleanShutdown, calls>>

\* The closure of a blocking call, second half (lines 227, 242, 280, 309):
\* resultPromise.set_value(returnValue), the closure's last statement.
TaskSetValue ==
    /\ wpc = "setval"
    /\ promise' = [promise EXCEPT ![task.id] = returnValue]
    /\ setCount' = [setCount EXCEPT ![task.id] = @ + 1]
    /\ inflight' = inflight \ {task.id}
    /\ task' = NoTask
    /\ returnValue' = "none"
    /\ wpc' = "wait"
    /\ UNCHANGED <<memberVars, callerVars, dpc, retval, pushed, executed,
                   opResult, constructed, destroyed, nullDeref,
                   cleanShutdown, calls>>

\* lines 89-91, predicate true: wait() returns without releasing the lock.
WorkerWaitSatisfied ==
    /\ wpc = "wait"
    /\ ConditionPredicate
    /\ wpc' = "loop"
    /\ UNCHANGED <<memberVars, task, returnValue, callerVars, dpc,
                   channelVars, ghostVars>>

\* Mutant: a wait without predicate, the worker blocks whatever the queue
\* and the flag hold.
WorkerWaitBlockUnchecked ==
    /\ wpc = "wait"
    /\ mThreadMutex' = Unlocked
    /\ wpc' = "waiting"
    /\ UNCHANGED <<mRenderEngine, mRunning, mIsInitialized, mFunctionCalls,
                   mInitializedMutex, task, returnValue, callerVars, dpc,
                   channelVars, ghostVars>>

\* lines 89-91, predicate false: the worker releases mThreadMutex and joins
\* the wait set of mCondition, atomically.
WorkerWaitBlock ==
    /\ wpc = "wait"
    /\ ~ConditionPredicate
    /\ mThreadMutex' = Unlocked
    /\ wpc' = "waiting"
    /\ UNCHANGED <<mRenderEngine, mRunning, mIsInitialized, mFunctionCalls,
                   mInitializedMutex, task, returnValue, callerVars, dpc,
                   channelVars, ghostVars>>

\* A condition variable may wake a waiter that nobody notified.
WorkerSpuriousWakeup ==
    /\ wpc = "waiting"
    /\ wpc' = "relock"
    /\ UNCHANGED <<memberVars, task, returnValue, callerVars, dpc,
                   channelVars, ghostVars>>

\* Woken inside mCondition.wait: take mThreadMutex again, then re-evaluate
\* the predicate.
WorkerRelock ==
    /\ wpc = "relock"
    /\ mThreadMutex = Unlocked
    /\ mThreadMutex' = WorkerThread
    /\ wpc' = "wait"
    /\ UNCHANGED <<mRenderEngine, mRunning, mIsInitialized, mFunctionCalls,
                   mInitializedMutex, task, returnValue, callerVars, dpc,
                   channelVars, ghostVars>>

\* line 95: mRenderEngine.reset(), still under mThreadMutex.
WorkerReset ==
    /\ wpc = "reset"
    /\ mRenderEngine' = "null"
    /\ destroyed' = TRUE
    /\ wpc' = "exit"
    /\ UNCHANGED <<mRunning, mIsInitialized, mFunctionCalls, mThreadMutex,
                   mInitializedMutex, task, returnValue, callerVars, dpc,
                   channelVars, pushed, executed, inflight, opResult,
                   setCount, constructed, nullDeref, cleanShutdown, calls>>

\* line 96: threadMain returns; `lock` is destroyed and the thread ends.
WorkerExit ==
    /\ wpc = "exit"
    /\ mThreadMutex' = Unlocked
    /\ wpc' = "terminated"
    /\ UNCHANGED <<mRenderEngine, mRunning, mIsInitialized, mFunctionCalls,
                   mInitializedMutex, task, returnValue, callerVars, dpc,
                   channelVars, ghostVars>>

\* threadMain up to and including its loop.
WorkerRun ==
    \/ WorkerFactory
    \/ WorkerLock
    \/ WorkerInitLock
    \/ WorkerSetInitialized
    \/ WorkerNotifyInitialized
    \/ WorkerPop
    \/ WorkerNothingToDo
    \/ TaskRunAsync
    \/ TaskRunSync
    \/ TaskSetValue
    \/ WorkerWaitSatisfied
    \/ WorkerWaitBlock
    \/ WorkerRelock

\* threadMain once mRunning has been seen false.
WorkerShutdown ==
    \/ WorkerLeaveLoop
    \/ WorkerReset
    \/ WorkerExit

WorkerNext ==
    \/ WorkerRun
    \/ WorkerShutdown

\* ---------------------------------------------------------- the callers
\* A caller thread enters a public operation.  No operation is begun once
\* the destructor has been entered.
BeginCall(c, op) ==
    /\ cpc[c] = "idle"
    /\ dpc = "idle"
    /\ calls < MaxCalls
    /\ calls' = calls + 1
    /\ cop' = [cop EXCEPT ![c] = op]
    /\ cpc' = [cpc EXCEPT ![c] = IF op \in {"async", "sync"} THEN "tlock" ELSE "ilock"]
    /\ UNCHANGED <<memberVars, workerVars, ctask, dpc, channelVars, pushed,
                   executed, inflight, opResult, setCount, constructed,
                   destroyed, nullDeref, cleanShutdown>>

\* std::lock_guard lock(mThreadMutex) of a queued call (lines 108, 121,
\* 139, 155, 172, 186, 222, 238, 253, 274, 292, 305, 325).
CallerLock(c) ==
    /\ cpc[c] = "tlock"
    /\ mThreadMutex = Unlocked
    /\ mThreadMutex' = c
    /\ cpc' = [cpc EXCEPT ![c] = "push"]
    /\ UNCHANGED <<mRenderEngine, mRunning, mIsInitialized, mFunctionCalls,
                   mInitializedMutex, workerVars, cop, ctask, dpc,
                   channelVars, ghostVars>>

\* mFunctionCalls.push(closure) and the end of the lock_guard's scope.  A
\* blocking call's closure captures the promise on the caller's stack.
CallerPush(c) ==
    /\ cpc[c] = "push"
    /\ LET t == [id |-> Len(pushed) + 1, sync |-> (cop[c] = "sync")]
       IN  /\ mFunctionCalls' = Push(mFunctionCalls, t)
           /\ pushed' = Append(pushed, t)
           /\ ctask' = [ctask EXCEPT ![c] = t.id]
    /\ mThreadMutex' = Unlocked
    /\ cpc' = [cpc EXCEPT ![c] = "notify"]
    /\ UNCHANGED <<mRenderEngine, mRunning, mIsInitialized,
                   mInitializedMutex, workerVars, cop, dpc, channelVars,
                   executed, inflight, opResult, setCount, constructed,
                   destroyed, nullDeref, cleanShutdown, calls>>

\* Mutant: a fire-and-forget call stays in the call until the worker has
\* taken its closure from the queue.
CallerNotifyAfterRun(c) ==
    /\ cpc[c] = "notify"
    /\ (cop[c] = "async") => (\E i \in 1..Len(executed) : executed[i] = ctask[c])
    /\ wpc' = NotifyOne(wpc)
    /\ IF cop[c] = "sync"
       THEN /\ cpc' = [cpc EXCEPT ![c] = "get"]
            /\ UNCHANGED <<cop, ctask>>
       ELSE /\ cpc' = [cpc EXCEPT ![c] = "idle"]
            /\ cop' = [cop EXCEPT ![c] = "none"]
            /\ ctask' = [ctask EXCEPT ![c] = 0]
    /\ UNCHANGED <<memberVars, task, returnValue, dpc, channelVars,
                   ghostVars>>

\* mCondition.notify_one() after the lock is released.  A fire-and-forget
\* call returns here; a blocking call goes on to its future.
CallerNotify(c) ==
    /\ cpc[c] = "notify"
    /\ wpc' = NotifyOne(wpc)
    /\ IF cop[c] = "sync"
       THEN /\ cpc' = [cpc EXCEPT ![c] = "get"]
            /\ UNCHANGED <<cop, ctask>>
       ELSE /\ cpc' = [cpc EXCEPT ![c] = "idle"]
            /\ cop' = [cop EXCEPT ![c] = "none"]
            /\ ctask' = [ctask EXCEPT ![c] = 0]
    /\ UNCHANGED <<memberVars, task, returnValue, dpc, channelVars,
                   ghostVars>>

\* Mutant: the future is read without waiting for it to be ready.
CallerGetNoWait(c) ==
    /\ cpc[c] = "get"
    /\ retval' = [retval EXCEPT ![c] = promise[ctask[c]]]
    /\ cpc' = [cpc EXCEPT ![c] = "got"]
    /\ UNCHANGED <<memberVars, workerVars, cop, ctask, dpc, promise,
                   ghostVars>>

\* resultFuture.get() / resultFuture.wait(): blocks until the promise of
\* this call has been given a value, and yields that value.
CallerGet(c) ==
    /\ cpc[c] = "get"
    /\ promise[ctask[c]] # "unset"
    /\ retval' = [retval EXCEPT ![c] = promise[ctask[c]]]
    /\ cpc' = [cpc EXCEPT ![c] = "got"]
    /\ UNCHANGED <<memberVars, workerVars, cop, ctask, dpc, promise,
                   ghostVars>>

\* The blocking call returns the value to its caller; resultPromise and
\* resultFuture, locals of the call, are destroyed.
CallerReturn(c) ==
    /\ cpc[c] = "got"
    /\ promise' = [promise EXCEPT ![ctask[c]] = "unset"]
    /\ opResult' = [opResult EXCEPT ![ctask[c]] = "none"]
    /\ retval' = [retval EXCEPT ![c] = "none"]
    /\ cpc' = [cpc EXCEPT ![c] = "idle"]
    /\ cop' = [cop EXCEPT ![c] = "none"]
    /\ ctask' = [ctask EXCEPT ![c] = 0]
    /\ UNCHANGED <<memberVars, workerVars, dpc, pushed, executed, inflight,
                   setCount, constructed, destroyed, nullDeref,
                   cleanShutdown, calls>>

\* waitUntilInitialized, line 99: std::unique_lock lock(mInitializedMutex).
\* Also where a woken waiter takes the mutex again.
WaitInitLock(c) ==
    /\ cpc[c] = "ilock"
    /\ mInitializedMutex = Unlocked
    /\ mInitializedMutex' = c
    /\ cpc' = [cpc EXCEPT ![c] = "icheck"]
    /\ UNCHANGED <<mRenderEngine, mRunning, mIsInitialized, mFunctionCalls,
                   mThreadMutex, workerVars, cop, ctask, dpc, channelVars,
                   ghostVars>>

\* Mutant: waitUntilInitialized returns whatever the flag holds.
WaitInitReturnUnchecked(c) ==
    /\ cpc[c] = "icheck"
    /\ mInitializedMutex' = Unlocked
    /\ cpc' = [cpc EXCEPT ![c] = CASE cop[c] = "wait" -> "waited"
                                   [] cop[c] = "read" -> "deref"
                                   [] OTHER -> "plock"]
    /\ UNCHANGED <<mRenderEngine, mRunning, mIsInitialized, mFunctionCalls,
                   mThreadMutex, workerVars, cop, ctask, dpc, channelVars,
                   ghostVars>>

\* line 100, predicate true: wait() returns, the lock goes out of scope and
\* waitUntilInitialized returns into the operation that called it.
WaitInitReturn(c) ==
    /\ cpc[c] = "icheck"
    /\ InitializedPredicate
    /\ mInitializedMutex' = Unlocked
    /\ cpc' = [cpc EXCEPT ![c] = CASE cop[c] = "wait" -> "waited"
                                   [] cop[c] = "read" -> "deref"
                                   [] OTHER -> "plock"]
    /\ UNCHANGED <<mRenderEngine, mRunning, mIsInitialized, mFunctionCalls,
                   mThreadMutex, workerVars, cop, ctask, dpc, channelVars,
                   ghostVars>>

\* line 100, predicate false: release mInitializedMutex and join the wait
\* set of mInitializedCondition, atomically.
WaitInitBlock(c) ==
    /\ cpc[c] = "icheck"
    /\ ~InitializedPredicate
    /\ mInitializedMutex' = Unlocked
    /\ cpc' = [cpc EXCEPT ![c] = "iwait"]
    /\ UNCHANGED <<mRenderEngine, mRunning, mIsInitialized, mFunctionCalls,
                   mThreadMutex, workerVars, cop, ctask, dpc, channelVars,
                   ghostVars>>

\* A waiter of mInitializedCondition woken without a notification.
WaitInitSpuriousWakeup(c) ==
    /\ cpc[c] = "iwait"
    /\ cpc' = [cpc EXCEPT ![c] = "ilock"]
    /\ UNCHANGED <<memberVars, workerVars, cop, ctask, dpc, channelVars,
                   ghostVars>>

\* A caller of waitUntilInitialized() itself has got its return.
WaitDone(c) ==
    /\ cpc[c] = "waited"
    /\ cpc' = [cpc EXCEPT ![c] = "idle"]
    /\ cop' = [cop EXCEPT ![c] = "none"]
    /\ UNCHANGED <<memberVars, workerVars, ctask, dpc, channelVars,
                   ghostVars>>

\* getMaxTextureSize, getMaxViewportDims, supportsProtectedContent,
\* supportsBackgroundBlur (lines 197, 202, 215, 318): mRenderEngine->...
\* with no lock held.
DirectRead(c) ==
    /\ cpc[c] = "deref"
    /\ nullDeref' = (nullDeref \/ mRenderEngine = "null")
    /\ cpc' = [cpc EXCEPT ![c] = "idle"]
    /\ cop' = [cop EXCEPT ![c] = "none"]
    /\ UNCHANGED <<memberVars, workerVars, ctask, dpc, channelVars, pushed,
                   executed, inflight, opResult, setCount, constructed,
                   destroyed, cleanShutdown, calls>>

\* Mutant: isProtected goes to its read without taking mThreadMutex.
IsProtectedLockSkipped(c) ==
    /\ cpc[c] = "plock"
    /\ cpc' = [cpc EXCEPT ![c] = "pderef"]
    /\ UNCHANGED <<memberVars, workerVars, cop, ctask, dpc, channelVars,
                   ghostVars>>

\* isProtected, line 209: std::lock_guard lock(mThreadMutex).
IsProtectedLock(c) ==
    /\ cpc[c] = "plock"
    /\ mThreadMutex = Unlocked
    /\ mThreadMutex' = c
    /\ cpc' = [cpc EXCEPT ![c] = "pderef"]
    /\ UNCHANGED <<mRenderEngine, mRunning, mIsInitialized, mFunctionCalls,
                   mInitializedMutex, workerVars, cop, ctask, dpc,
                   channelVars, ghostVars>>

\* isProtected, line 210-211: mRenderEngine->isProtected() under the lock,
\* then the lock_guard goes out of scope.
IsProtectedRead(c) ==
    /\ cpc[c] = "pderef"
    /\ nullDeref' = (nullDeref \/ mRenderEngine = "null")
    /\ mThreadMutex' = Unlocked
    /\ cpc' = [cpc EXCEPT ![c] = "idle"]
    /\ cop' = [cop EXCEPT ![c] = "none"]
    /\ UNCHANGED <<mRenderEngine, mRunning, mIsInitialized, mFunctionCalls,
                   mInitializedMutex, workerVars, ctask, dpc, channelVars,
                   pushed, executed, inflight, opResult, setCount,
                   constructed, destroyed, cleanShutdown, calls>>

\* The steps of a caller inside a queued call (fire-and-forget or blocking).
QueueCall(c) ==
    \/ CallerLock(c)
    \/ CallerPush(c)
    \/ CallerNotify(c)
    \/ CallerGet(c)
    \/ CallerReturn(c)

\* The steps of a caller inside waitUntilInitialized.
InitWait(c) ==
    \/ WaitInitLock(c)
    \/ WaitInitReturn(c)
    \/ WaitInitBlock(c)
    \/ WaitDone(c)

\* The steps of a direct-read accessor after waitUntilInitialized.
Accessor(c) ==
    \/ DirectRead(c)
    \/ IsProtectedLock(c)
    \/ IsProtectedRead(c)

\* The steps of a caller that is inside a call.
CallerStep(c) ==
    \/ QueueCall(c)
    \/ InitWait(c)
    \/ Accessor(c)

\* ------------------------------------------------------- the destructor
\* ~RenderEngineThreaded is entered (by the owner of the unique_ptr).
DtorBegin ==
    /\ dpc = "idle"
    /\ dpc' = "lock"
    /\ cleanShutdown' = (\A c \in Callers : cpc[c] = "idle")
    /\ UNCHANGED <<memberVars, workerVars, callerVars, channelVars, pushed,
                   executed, inflight, opResult, setCount, constructed,
                   destroyed, nullDeref, calls>>

\* line 52: std::lock_guard lock(mThreadMutex).
DtorLock ==
    /\ dpc = "lock"
    /\ mThreadMutex = Unlocked
    /\ mThreadMutex' = DtorThread
    /\ dpc' = "stop"
    /\ UNCHANGED <<mRenderEngine, mRunning, mIsInitialized, mFunctionCalls,
                   mInitializedMutex, workerVars, callerVars, channelVars,
                   ghostVars>>

\* lines 53-55: mRunning = false; mCondition.notify_one(); unlock.
DtorStop ==
    /\ dpc = "stop"
    /\ mRunning' = FALSE
    /\ wpc' = NotifyOne(wpc)
    /\ mThreadMutex' = Unlocked
    /\ dpc' = "join"
    /\ UNCHANGED <<mRenderEngine, mIsInitialized, mFunctionCalls,
                   mInitializedMutex, task, returnValue, callerVars,
                   channelVars, ghostVars>>

\* Mutant: the destructor does not wait for the thread.
DtorNoJoin ==
    /\ dpc = "join"
    /\ dpc' = "done"
    /\ UNCHANGED <<memberVars, workerVars, callerVars, channelVars,
                   ghostVars>>

\* lines 57-59: mThread.join() returns once threadMain has returned (the
\* thread is always joinable: the constructor started it).
DtorJoin ==
    /\ dpc = "join"
    /\ wpc = "terminated"
    /\ dpc' = "done"
    /\ UNCHANGED <<memberVars, workerVars, callerVars, channelVars,
                   ghostVars>>

DtorStep ==
    \/ DtorLock
    \/ DtorStop
    \/ DtorJoin

\* ---------------------------------------------------- the specifications
Next ==
    \/ WorkerNext
    \/ WorkerSpuriousWakeup
    \/ \E c \in Callers : \E op \in Ops : BeginCall(c, op)
    \/ \E c \in Callers : CallerStep(c)
    \/ \E c \in Callers : WaitInitSpuriousWakeup(c)
    \/ DtorBegin
    \/ DtorStep

Spec == Init /\ [][Next]_vars

\* The steps in which a thread takes a mutex.
WorkerAcquire ==
    \/ WorkerLock
    \/ WorkerInitLock
    \/ WorkerRelock

CallerAcquire(c) ==
    \/ CallerLock(c)
    \/ WaitInitLock(c)
    \/ IsProtectedLock(c)

\* Fair scheduling.  Every thread that can take a step eventually takes
\* one, and a thread blocked on a mutex that keeps being released eventually
\* gets it.  Nothing obliges a caller to begin a call, the owner to destroy
\* the object, or a condition variable to wake a waiter spuriously.
Fairness ==
    /\ WF_vars(WorkerNext)
    /\ SF_vars(WorkerAcquire)
    /\ \A c \in Callers : WF_vars(CallerStep(c)) /\ SF_vars(CallerAcquire(c))
    /\ WF_vars(DtorStep)
    /\ SF_vars(DtorLock)

LiveSpec == Spec /\ Fairness

\* The object while nobody destroys it and the callers use its queued
\* operations: the destructor is never entered, so the worker never leaves
\* its loop.
QueueOps == {"async", "sync"}

NextAlive ==
    \/ WorkerRun
    \/ WorkerSpuriousWakeup
    \/ \E c \in Callers : \E op \in QueueOps : BeginCall(c, op)
    \/ \E c \in Callers : QueueCall(c)

AliveSpec ==
    /\ Init
    /\ [][NextAlive]_vars
    /\ WF_vars(WorkerRun)
    /\ SF_vars(WorkerAcquire)
    /\ \A c \in Callers : WF_vars(QueueCall(c)) /\ SF_vars(CallerLock(c))

\* threadMain from its entry to the loop (lines 72-81).
WorkerStartup ==
    \/ WorkerFactory
    \/ WorkerLock
    \/ WorkerInitLock
    \/ WorkerSetInitialized
    \/ WorkerNotifyInitialized

\* The loop of threadMain while the queue stays empty (lines 83-92).
WorkerIdle ==
    \/ WorkerNothingToDo
    \/ WorkerWaitSatisfied
    \/ WorkerWaitBlock
    \/ WorkerRelock

\* The operations that go through waitUntilInitialized.
InitOps == {"wait", "read", "isProtected"}

\* The object from construction to destruction while the callers use only
\* waitUntilInitialized and the direct-read accessors: nothing is queued.
NextInit ==
    \/ WorkerStartup
    \/ WorkerIdle
    \/ WorkerShutdown
    \/ WorkerSpuriousWakeup
    \/ \E c \in Callers : \E op \in InitOps : BeginCall(c, op)
    \/ \E c \in Callers : InitWait(c)
    \/ \E c \in Callers : Accessor(c)
    \/ \E c \in Callers : WaitInitSpuriousWakeup(c)
    \/ DtorBegin
    \/ DtorStep

InitSpec ==
    /\ Init
    /\ [][NextInit]_vars
    /\ WF_vars(WorkerStartup \/ WorkerIdle \/ WorkerShutdown)
    /\ SF_vars(WorkerAcquire)
    /\ \A c \in Callers : WF_vars(InitWait(c) \/ Accessor(c)) /\ SF_vars(CallerAcquire(c))
    /\ WF_vars(DtorStep)
    /\ SF_vars(DtorLock)

\* The object from construction to destruction while the callers use its
\* queued operations.
NextShutdown ==
    \/ WorkerNext
    \/ WorkerSpuriousWakeup
    \/ \E c \in Callers : \E op \in QueueOps : BeginCall(c, op)
    \/ \E c \in Callers : QueueCall(c)
    \/ DtorBegin
    \/ DtorStep

\* Every thread that can take a step eventually takes one, and the
\* destroying thread eventually gets mThreadMutex, which the worker keeps
\* taking and releasing for as long as it is woken.
ShutdownSpec ==
    /\ Init
    /\ [][NextShutdown]_vars
    /\ WF_vars(WorkerNext)
    /\ \A c \in Callers : WF_vars(QueueCall(c))
    /\ WF_vars(DtorStep)
    /\ SF_vars(DtorLock)

\* --------------------------------------------------------------- claims
\* How often id occurs in a sequence of ids.
Count(seq, id) == Cardinality({i \in 1..Len(seq) : seq[i] = id})
\* The ids of a sequence of closures.
Ids(q) == [i \in 1..Len(q) |-> q[i].id]
\* The push position of the closure id (0: never pushed).
PushIndex(id) ==
    IF \E i \in 1..Len(pushed) : pushed[i].id = id
    THEN CHOOSE i \in 1..Len(pushed) : pushed[i].id = id
    ELSE 0
\* The closure id has run to its end on the worker.
Completed(id) == Count(executed, id) >= 1 /\ id \notin inflight

\* C1. FIFO execution: the order in which the worker runs closures is a
\* prefix of the order in which they were pushed onto mFunctionCalls,
\* whatever mix of blocking and fire-and-forget calls pushed them.
C1_FifoExecution ==
    /\ Len(executed) <= Len(pushed)
    /\ \A i \in 1..Len(executed) : executed[i] = pushed[i].id

\* Two closures of different kinds have been run, in push order.
C1_Witness ==
    /\ Len(executed) = 2
    /\ pushed[1].sync # pushed[2].sync

\* C2. Mutual exclusion: at most one closure is running against the
\* RenderEngine in any reachable state.
C2_MutualExclusion == Cardinality(inflight) <= 1

\* A closure is running while another is queued and a producer is inside a
\* call.
C2_Witness ==
    /\ inflight # {}
    /\ Len(mFunctionCalls) >= 1
    /\ \E c \in Callers : cpc[c] # "idle"

\* C3. A blocking call gets its return only after the worker has run that
\* call's own closure to the end and set its promise: the closure is
\* neither queued nor running any more.
C3_BlockingReturnsAfterExecution ==
    \A c \in Callers :
        cpc[c] = "got" =>
            /\ Completed(ctask[c])
            /\ setCount[ctask[c]] >= 1
            /\ \A i \in 1..Len(mFunctionCalls) : mFunctionCalls[i].id # ctask[c]

\* A blocking call is returning.
C3_Witness == \E c \in Callers : cpc[c] = "got" /\ cop[c] = "sync"

\* C4 as stated: once the worker thread has terminated after a destruction
\* that followed the calls, every pushed closure has run exactly once.
C4_EveryTaskExactlyOnce ==
    (wpc = "terminated" /\ cleanShutdown) =>
        \A i \in 1..Len(pushed) : Count(executed, pushed[i].id) = 1

\* C4 amended: no closure runs twice, and a pushed closure has run (once)
\* exactly when it has left mFunctionCalls; closures still queued when the
\* worker left its loop stay queued and are never run.
C4_AtMostOnceQueuedDropped ==
    /\ \A i \in 1..Len(pushed) :
          /\ Count(executed, pushed[i].id) <= 1
          /\ (Count(executed, pushed[i].id) = 0) <=> (Count(Ids(mFunctionCalls), pushed[i].id) = 1)
    /\ executed \o Ids(mFunctionCalls) = Ids(pushed)

\* The worker has terminated after a destruction that followed the calls,
\* having run one closure and left another in the queue.
C4_Witness ==
    /\ wpc = "terminated"
    /\ cleanShutdown
    /\ Len(executed) >= 1
    /\ Len(mFunctionCalls) >= 1

\* C5 as stated: the worker does not hold mThreadMutex while a closure is
\* running, so a producer's push never waits on the consumer.
C5_LockFreeWhileExecuting == (inflight # {}) => (mThreadMutex # WorkerThread)

\* C6. With the object not destroyed and every thread that can step
\* eventually stepping, each blocking call that has been entered gets its
\* return, however many closures are queued ahead of it.
C6_BlockingCallsReturn ==
    \A c \in Callers : (cop[c] = "sync") ~> (cpc[c] = "got")

\* Two blocking calls entered by different threads are both returning.
C6_Witness == \A c \in Callers : cop[c] = "sync" /\ cpc[c] = "got"

\* C7. When a blocking call gets its return, every closure pushed before
\* its own (by any thread, of either kind) has been run to the end.
C7_PriorTasksExecuted ==
    \A c \in Callers :
        cpc[c] = "got" =>
            \A i \in 1..PushIndex(ctask[c]) : Completed(pushed[i].id)

\* A blocking call pushed after a fire-and-forget call is returning.
C7_Witness ==
    \E c \in Callers :
        /\ cpc[c] = "got"
        /\ PushIndex(ctask[c]) = 2
        /\ ~pushed[1].sync

\* C8. Initialization barrier: mIsInitialized is true only once factory()
\* has returned and mRenderEngine is assigned, and no caller is past
\* waitUntilInitialized() before that.
C8_InitBarrierSafety ==
    /\ mIsInitialized => constructed
    /\ (mIsInitialized /\ ~destroyed) => mRenderEngine = "engine"
    /\ \A c \in Callers :
          cpc[c] \in {"waited", "deref", "plock", "pderef"} => constructed

\* waitUntilInitialized() has returned to a caller after a closure had
\* been pushed.
C8_Witness ==
    /\ \E c \in Callers : cpc[c] = "waited"
    /\ Len(pushed) >= 1

\* C9. Shutdown ordering: the RenderEngine is destroyed only after mRunning
\* was cleared and the worker left its loop, and the destructor returns
\* only after the worker destroyed the RenderEngine and terminated.
C9_ShutdownOrdering ==
    /\ destroyed => (~mRunning /\ wpc \in {"exit", "terminated"} /\ inflight = {})
    /\ wpc \in {"reset", "exit", "terminated"} => ~mRunning
    /\ dpc = "done" => (wpc = "terminated" /\ destroyed /\ mRenderEngine = "null")

\* The destructor has returned.
C9_Witness == dpc = "done" /\ constructed

\* C10. Result pass-through: the value a blocking call returns is the value
\* the RenderEngine operation returned while that call's own closure ran.
C10_ResultPassThrough ==
    \A c \in Callers :
        cpc[c] = "got" =>
            /\ retval[c] \in Results
            /\ retval[c] = opResult[ctask[c]]

\* Two blocking calls from different threads are returning different
\* values.
C10_Witness ==
    \E c, d \in Callers :
        /\ cpc[c] = "got"
        /\ cpc[d] = "got"
        /\ retval[c] = "NO_ERROR"
        /\ retval[d] = "BAD_VALUE"


\* C11. A failed operation does not poison the queue: the step in which a
\* blocking call's closure ends with an error status leaves the worker in
\* its loop (at the wait) with mRunning and mFunctionCalls untouched, and,
\* the object not being destroyed, every closure pushed is still run, in
\* push order, whatever the closures before it returned.
C11_FailureDoesNotPoisonQueue ==
    /\ [][(wpc = "setval" /\ returnValue = "BAD_VALUE" /\ wpc' # "setval") =>
            (/\ wpc' = "wait"
             /\ mRunning' = mRunning
             /\ mFunctionCalls' = mFunctionCalls
             /\ promise'[task.id] = "BAD_VALUE")]_vars
    /\ [](\A i \in 1..Len(executed) : executed[i] = pushed[i].id)
    /\ \A id \in TaskIds : (Len(pushed) >= id) ~> (Count(executed, id) = 1)

\* A blocking call is returning an error while a closure pushed after its
\* own has been run.
C11_Witness ==
    \E c \in Callers :
        /\ cpc[c] = "got"
        /\ retval[c] = "BAD_VALUE"
        /\ \E i \in 1..Len(executed) : i > PushIndex(ctask[c])


\* C12. A fire-and-forget call does not wait for its own closure: once its
\* push is done, the step that notifies and returns is enabled in every
\* state, also while the closure is still queued and while the
\* RenderEngine has not been constructed.
C12_FireAndForgetReturnEnabled ==
    \A c \in Callers :
        (cpc[c] = "notify" /\ cop[c] = "async") => ENABLED CallerNotify(c)

\* Every fire-and-forget call has returned while a closure is still queued
\* and factory() has not returned yet.
C12_Witness ==
    /\ \A c \in Callers : cpc[c] = "idle"
    /\ Len(mFunctionCalls) >= 1
    /\ ~constructed


\* C13. Once the destructor has cleared mRunning the worker dequeues and
\* starts no further closure: the flag is cleared only while no closure is
\* running, it is never set again, and from the loop test the worker goes
\* to the reset even when mFunctionCalls is not empty.
C13_NoTaskAfterStop ==
    /\ [][(mRunning /\ ~mRunning') => (inflight = {} /\ wpc \notin {"exec", "setval"})]_vars
    /\ [][(~mRunning) => (/\ ~mRunning'
                          /\ executed' = executed
                          /\ inflight' = {}
                          /\ Len(mFunctionCalls') >= Len(mFunctionCalls))]_vars
    /\ [][(~mRunning /\ wpc = "loop" /\ wpc' # "loop") => wpc' = "reset"]_vars
    /\ [][(~mRunning /\ wpc = "wait" /\ wpc' # "wait") => wpc' = "loop"]_vars

\* The worker has left its loop with a closure still queued.
C13_Witness ==
    /\ ~mRunning
    /\ wpc = "reset"
    /\ Len(mFunctionCalls) >= 1


\* C14. Closures run only against a live RenderEngine: whenever a closure
\* is running, factory() has returned, mRenderEngine is set and reset() has
\* not begun; the worker is at the reset or beyond only with no closure
\* running, and nothing is started before the worker is in its loop.
C14_TasksOnLiveResource ==
    /\ (inflight # {}) => (/\ constructed
                           /\ mRenderEngine = "engine"
                           /\ ~destroyed
                           /\ wpc \in {"exec", "setval"})
    /\ (wpc \in {"reset", "exit", "terminated"}) => (inflight = {})
    /\ (wpc \in {"factory", "lock", "initLock", "setInit", "notifyInit"}) =>
          (executed = <<>>)
    /\ (wpc \in {"exec", "setval"}) => (inflight = {task.id})

\* A closure is running while the destructor has been entered.
C14_Witness ==
    /\ inflight # {}
    /\ dpc # "idle"


\* C15. No missed wakeup: the worker is never left blocked in
\* mCondition.wait with the predicate true.  Whenever it is in the wait set
\* while mFunctionCalls is not empty or mRunning is false, a producer that
\* has pushed and released the lock is about to call notify_one; mRunning
\* false never finds it in the wait set, the destructor notifying under the
\* lock.
C15_NoMissedWakeup ==
    /\ (wpc = "waiting" /\ ConditionPredicate) =>
          (\E c \in Callers : cpc[c] = "notify")
    /\ (wpc = "waiting") => mRunning
    /\ (wpc = "waiting") => (mThreadMutex # WorkerThread)

\* The window between a producer's unlock and its notify_one: the worker is
\* in the wait set, the queue is not empty.
C15_Witness ==
    /\ wpc = "waiting"
    /\ ~Empty(mFunctionCalls)
    /\ \E c \in Callers : cpc[c] = "notify"


\* C16: initialization barrier liveness.  Under fair scheduling every thread
\* inside waitUntilInitialized, however many at once, eventually leaves it,
\* also when the destructor clears mRunning before the worker has reached
\* its loop; mIsInitialized once set stays set, and a thread enters the wait
\* set of mInitializedCondition only while the flag is still false.
InWaitUntilInitialized(c) == cpc[c] \in {"ilock", "icheck", "iwait"}

C16_InitBarrierLiveness ==
    /\ \A c \in Callers : InWaitUntilInitialized(c) ~> ~InWaitUntilInitialized(c)
    /\ [][mIsInitialized => mIsInitialized']_vars
    /\ [][\A c \in Callers :
            (cpc[c] # "iwait" /\ cpc'[c] = "iwait") => ~mIsInitialized]_vars

\* Every caller is blocked in the wait, the destructor has cleared mRunning
\* and the worker, not yet in its loop, has set the flag and is about to
\* notify.
C16_Witness ==
    /\ \A c \in Callers : cpc[c] = "iwait"
    /\ ~mRunning /\ mIsInitialized /\ wpc = "notifyInit"


\* C17: isProtected reads the resource only while its thread holds
\* mThreadMutex, and in no state where a caller thread holds mThreadMutex is
\* the worker executing a task, so the read never overlaps a task.
C17_IsProtectedExcludesTasks ==
    /\ \A c \in Callers : (cpc[c] = "pderef") => (mThreadMutex = c /\ inflight = {})
    /\ (mThreadMutex \in Callers) => (inflight = {} /\ wpc \notin {"exec", "setval"})

\* isProtected is at its read while a closure is queued and the worker,
\* notified, is waiting for the mutex.
C17_Witness ==
    \E c \in Callers : cpc[c] = "pderef" /\ ~Empty(mFunctionCalls) /\ wpc = "relock"


\* C18: the result channel of a blocking call is write-once.  A promise is
\* set at most once, each write is made by the worker at the set_value of
\* the closure it is executing, which is the closure of that blocking call,
\* and a caller's read of the future completes only after the write.
C18_PromiseWriteOnce ==
    /\ [](\A id \in TaskIds :
            /\ setCount[id] <= 1
            /\ (promise[id] # "unset") => (setCount[id] = 1)
            /\ (setCount[id] = 1) =>
                  (Count(executed, id) = 1 /\ pushed[PushIndex(id)].sync))
    /\ [](\A c \in Callers :
            (cpc[c] = "got") => (setCount[ctask[c]] = 1 /\ retval[c] \in Results))
    /\ [][\A id \in TaskIds :
            (setCount'[id] # setCount[id]) =>
               (wpc = "setval" /\ task.id = id /\ task.sync /\ inflight = {id}
                /\ mThreadMutex = WorkerThread)]_vars

\* Every caller has read the future of its blocking call.
C18_Witness ==
    /\ \A c \in Callers : cpc[c] = "got"
    /\ \A id \in TaskIds : setCount[id] = 1


\* C19: destruction terminates.  Once the destructor has been entered, under
\* fair scheduling, the worker leaves its loop, resets mRenderEngine and
\* returns from threadMain, and the destructor's join returns: whatever the
\* worker was doing when the destructor was entered and whatever was queued.
C19_DestructionTerminates ==
    /\ (dpc = "lock") ~> (~mRunning /\ wpc = "reset")
    /\ (dpc # "idle") ~> (dpc = "done" /\ wpc = "terminated" /\ mRenderEngine = "null")

\* The join has returned while a closure was still queued.
C19_Witness == dpc = "done" /\ wpc = "terminated" /\ Len(mFunctionCalls) >= 1


AtRead(c) == cpc[c] \in {"deref", "pderef"}

====
